---------------------------- MODULE Spec2Model ----------------------------
(***************************************************************************)
(* A model of npd, the "Now Playing Daemon": run() in src/lib.rs and the   *)
(* MPD configuration and state file parsers of src/mpd.rs.                 *)
(*                                                                         *)
(* Text is modelled as a sequence of one-character strings, so that        *)
(* prefixes, trimming and number parsing are computed character by         *)
(* character the way the Rust code computes them.                          *)
(***************************************************************************)
EXTENDS Naturals, Sequences, FiniteSets

(***************************************************************************)
(* Bounds of the model.                                                    *)
(***************************************************************************)
\* How many loop cycles the history variables record.
MaxLog == 4
\* How many lines the inputs of the parser specifications hold.
MaxLines == 3
\* How many event records the end of a watch puts in the queue at most.
MaxRecords == 2

(***************************************************************************)
(* Strings.                                                                *)
(***************************************************************************)
\* char::is_whitespace for the characters of the model's alphabet.
WhiteSpace == {" ", "\t", "\n", "\r", "\f"}

Digits == <<"0", "1", "2", "3", "4", "5", "6", "7", "8", "9">>

IsDigit(c) == \E d \in 1..10 : Digits[d] = c

DigitValue(c) == (CHOOSE d \in 1..10 : Digits[d] = c) - 1

\* s[from..], 1-based, the empty string when from is past the end.
DropFront(s, from) == SubSeq(s, from, Len(s))

\* str::contains: the text taken anywhere in s, not only at its start.
contains(s, prefix) ==
  \E n \in 0..(Len(s) - Len(prefix)) : SubSeq(s, n + 1, n + Len(prefix)) = prefix

\* str::starts_with
starts_with(s, prefix) ==
  /\ Len(prefix) <= Len(s)
  /\ SubSeq(s, 1, Len(prefix)) = prefix

\* str::strip_prefix, for a string that starts with the prefix.
strip_prefix(s, prefix) == DropFront(s, Len(prefix) + 1)

\* str::trim: whitespace removed from both ends.
trim(s) ==
  LET inner == {n \in 1..Len(s) : s[n] \notin WhiteSpace}
  IN IF inner = {} THEN <<>>
     ELSE LET first == CHOOSE n \in inner : \A m \in inner : n <= m
              last == CHOOSE n \in inner : \A m \in inner : m <= n
          IN SubSeq(s, first, last)

\* The decimal digits of usize::MAX on a 64 bit target.
UsizeMaxDigits ==
  <<"1", "8", "4", "4", "6", "7", "4", "4", "0", "7",
    "3", "7", "0", "9", "5", "5", "1", "6", "1", "5">>

\* Digit strings of the same length, compared as numbers.
DigitsLeq(a, b) ==
  \/ a = b
  \/ \E n \in 1..Len(a) :
       /\ SubSeq(a, 1, n - 1) = SubSeq(b, 1, n - 1)
       /\ DigitValue(a[n]) < DigitValue(b[n])

\* A digit string without its leading zeros ("0" for a string of zeros): the
\* decimal form in which Rust prints the number.
Canonical(ds) ==
  LET nonzero == {n \in 1..Len(ds) : ds[n] # "0"}
  IN IF nonzero = {} THEN <<"0">>
     ELSE DropFront(ds, CHOOSE n \in nonzero : \A m \in nonzero : n <= m)

\* A lenient parse that never fails: the number the digits of s make, 0 when
\* there are none.
usize_from_str_lenient(s) ==
  [ok |-> TRUE, val |-> Canonical(SelectSeq(s, IsDigit))]

\* usize::from_str: an optional "+", then one or more decimal digits, and a
\* value of at most usize::MAX. The value is held as its canonical digits.
usize_from_str(s) ==
  LET ds == IF Len(s) > 0 /\ s[1] = "+" THEN DropFront(s, 2) ELSE s
      c == Canonical(ds)
  IN IF ds = <<>> \/ \E n \in 1..Len(ds) : ~IsDigit(ds[n])
       THEN [ok |-> FALSE, val |-> <<>>]
     ELSE IF Len(c) > Len(UsizeMaxDigits)
             \/ (Len(c) = Len(UsizeMaxDigits) /\ ~DigitsLeq(c, UsizeMaxDigits))
       THEN [ok |-> FALSE, val |-> <<>>]
     ELSE [ok |-> TRUE, val |-> c]

\* format!("{current}:") for a usize held as its canonical digits.
format_prefix(index) == index \o <<":">>

(***************************************************************************)
(* Readers. A reader is a buffer of characters and the number of the       *)
(* read_line call that fails (0: none does).                               *)
(***************************************************************************)
Reader(buf, failAt) == [buf |-> buf, failAt |-> failAt]

\* BufRead::read_line at offset pos, as the reads-th call: the characters up
\* to and including the next newline, or up to the end of the buffer.
read_line(reader, pos, reads) ==
  LET nl == {n \in (pos + 1)..Len(reader.buf) : reader.buf[n] = "\n"}
      end == IF nl = {} THEN Len(reader.buf)
             ELSE CHOOSE n \in nl : \A m \in nl : n <= m
  IN IF reader.failAt = reads
       THEN [ok |-> FALSE, len |-> 0, line |-> <<>>]
       ELSE [ok |-> TRUE, len |-> end - pos,
             line |-> SubSeq(reader.buf, pos + 1, end)]

(***************************************************************************)
(* Results and options.                                                    *)
(***************************************************************************)
Ok(v) == [ok |-> TRUE, val |-> v, err |-> "none"]

Err(e) == [ok |-> FALSE, val |-> <<>>, err |-> e]

None == [some |-> FALSE, val |-> <<>>]

Some(v) == [some |-> TRUE, val |-> v]

(***************************************************************************)
(* mpd::parse_state                                                        *)
(***************************************************************************)
CurrentMarker == <<"c", "u", "r", "r", "e", "n", "t", ":">>

\* The values of current_prefix.
Prefixes == [some : BOOLEAN, val : Seq(STRING)]

\* The matching line's remainder as it stands.
entry_untrimmed(line, current_prefix) == strip_prefix(line, current_prefix)

\* line.strip_prefix(current_prefix) and current.trim().to_string()
entry(line, current_prefix) == trim(strip_prefix(line, current_prefix))

\* The loop runs from the state at: the offset into the reader, the number of
\* the next read_line call, and current_prefix.
parse_state(reader) ==
  LET loop[at \in [pos : Nat, reads : Nat, current_prefix : Prefixes]] ==
        LET r == read_line(reader, at.pos, at.reads)
        IN IF ~r.ok \/ r.len = 0
             THEN Err("failed to find currently playing song")
           ELSE IF ~at.current_prefix.some
             THEN IF starts_with(r.line, CurrentMarker)
                    THEN LET index ==
                               usize_from_str(trim(strip_prefix(r.line, CurrentMarker)))
                         IN IF index.ok
                              THEN loop[[pos |-> at.pos + r.len,
                                         reads |-> at.reads + 1,
                                         current_prefix |->
                                           Some(format_prefix(index.val))]]
                              ELSE Err("failed to parse current song index")
                    ELSE loop[[pos |-> at.pos + r.len, reads |-> at.reads + 1,
                               current_prefix |-> at.current_prefix]]
           ELSE IF starts_with(r.line, at.current_prefix.val)
             THEN Ok(entry(r.line, at.current_prefix.val))
           ELSE loop[[pos |-> at.pos + r.len, reads |-> at.reads + 1,
                      current_prefix |-> at.current_prefix]]
  IN loop[[pos |-> 0, reads |-> 1, current_prefix |-> None]]

(***************************************************************************)
(* mpd::parse_config                                                       *)
(***************************************************************************)
\* A search for '#' that skips the text between double quotes.
find_hash_outside_quotes(s) ==
  LET quotes(n) == Cardinality({m \in 1..(n - 1) : s[m] = "\""})
      at == {n \in 1..Len(s) : s[n] = "#" /\ quotes(n) % 2 = 0}
  IN IF at = {} THEN 0 ELSE CHOOSE n \in at : \A m \in at : n <= m

\* str::find('#'): the 1-based position of the first '#', 0 when there is none.
find_hash(s) ==
  LET at == {n \in 1..Len(s) : s[n] = "#"}
  IN IF at = {} THEN 0 ELSE CHOOSE n \in at : \A m \in at : n <= m

\* An insertion that keeps the value a key already has.
insert_if_absent(values, key, value) ==
  IF key \in DOMAIN values THEN values
  ELSE [k \in DOMAIN values \cup {key} |-> IF k = key THEN value ELSE values[k]]

\* HashMap::insert
insert(values, key, value) ==
  [k \in DOMAIN values \cup {key} |-> IF k = key THEN value ELSE values[k]]

\* str::trim_matches('"'): every double quote at either end is removed.
trim_matches_quote(v) ==
  LET inner == {n \in 1..Len(v) : v[n] # "\""}
  IN IF inner = {} THEN <<>>
     ELSE SubSeq(v, CHOOSE n \in inner : \A m \in inner : n <= m,
                    CHOOSE n \in inner : \A m \in inner : m <= n)

\* The body of the loop with value.trim_matches('"') for the two strips.
parse_config_line_trim_matches(values, line) ==
  LET t == trim(line)
      idx == find_hash(t)
      s == IF idx > 0 THEN SubSeq(t, 1, idx - 1) ELSE t
      ws == {n \in 1..Len(s) : s[n] \in WhiteSpace}
  IN IF ws = {} THEN values
     ELSE LET at == CHOOSE n \in ws : \A m \in ws : n <= m
          IN insert(values, SubSeq(s, 1, at - 1),
                    trim_matches_quote(trim(DropFront(s, at + 1))))

\* The body of the loop of parse_config for one line.
parse_config_line(values, line) ==
  LET t == trim(line)
      idx == find_hash(t)
      s == IF idx > 0 THEN SubSeq(t, 1, idx - 1) ELSE t
      ws == {n \in 1..Len(s) : s[n] \in WhiteSpace}
  IN IF ws = {} THEN values
     ELSE LET at == CHOOSE n \in ws : \A m \in ws : n <= m
              key == SubSeq(s, 1, at - 1)
              v0 == trim(DropFront(s, at + 1))
              v1 == IF starts_with(v0, <<"\"">>) THEN DropFront(v0, 2) ELSE v0
              v2 == IF Len(v1) > 0 /\ v1[Len(v1)] = "\""
                      THEN SubSeq(v1, 1, Len(v1) - 1) ELSE v1
          IN insert(values, key, v2)

\* The loop runs from the offset into the reader, as the reads-th read_line
\* call, with the values gathered so far.
RECURSIVE parse_config_loop(_, _, _, _)
parse_config_loop(reader, pos, reads, values) ==
  LET r == read_line(reader, pos, reads)
  IN IF ~r.ok \/ r.len = 0 THEN Ok(values)
     ELSE parse_config_loop(reader, pos + r.len, reads + 1,
                            parse_config_line(values, r.line))

parse_config(reader) == parse_config_loop(reader, 0, 1, <<>>)

(***************************************************************************)
(* mpd::find_config                                                        *)
(***************************************************************************)
\* The locations find_config probes, in its order. The first hangs off the
\* user's configuration directory, the next two off the home directory.
ConfigLocations ==
  <<"config_dir/mpd/mpd.conf", "home_dir/.mpdconf", "home_dir/.mpd/mpd.conf",
    "/etc/mpd.conf">>

\* What Path::try_exists answers for a location.
Probes == {"exists", "missing", "error"}

\* The locations probed: those whose base directory is known.
Candidates(config_dir, home_dir) ==
  {n \in 1..4 : /\ (n = 1 => config_dir)
                /\ (n \in {2, 3} => home_dir)}

find_config(config_dir, home_dir, probe) ==
  LET hits == {n \in Candidates(config_dir, home_dir) : probe[n] # "missing"}
  IN IF hits = {} THEN Err("failed to find MPD configuration file")
     ELSE LET n == CHOOSE h \in hits : \A j \in hits : h <= j
          IN IF probe[n] = "error" THEN Err("try_exists failed")
             ELSE Ok(ConfigLocations[n])

(***************************************************************************)
(* The world of run(): the MPD configuration file, the state file that the *)
(* MPD daemon rewrites, and the inotify instance.                          *)
(***************************************************************************)
\* ensure!(i < 500, ...): the cap of the wait for the state file.
MaxAttempts == 500

StateFileKey == <<"s", "t", "a", "t", "e", "_", "f", "i", "l", "e">>

\* The contents a configuration file may have.
ConfigTexts ==
  { <<"s", "t", "a", "t", "e", "_", "f", "i", "l", "e", " ", "\t", "\"", "/",
      "s", "\"", "\n">>,
    <<"#", " ", "n", "o", " ", "s", "t", "a", "t", "e", " ", "f", "i", "l", "e",
      "\n", "d", "b", "_", "f", "i", "l", "e", " ", "\"", "/", "d", "\"", "\n",
      "#", "s", "t", "a", "t", "e", "_", "f", "i", "l", "e", " ", "\"", "/", "s",
      "\"", "\n">>,
    <<>> }

\* What parse_config returns for each of them.
ParsedConfig == [text \in ConfigTexts |-> parse_config(Reader(text, 0))]

\* The versions of the state file the daemon writes, by name.
Dumps == {"playing_a", "playing_b", "stopped"}

\* What is at the path of the state file when no file is.
Absent == "absent"

\* The text of each version.
DumpText(d) ==
  CASE d = "playing_a" ->
         <<"c", "u", "r", "r", "e", "n", "t", ":", " ", "0", "\n",
           "0", ":", "a", "\n", "1", ":", "b", "\n">>
    [] d = "playing_b" ->
         <<"c", "u", "r", "r", "e", "n", "t", ":", " ", "1", "\n",
           "0", ":", "a", "\n", "1", ":", "b", "\n">>
    [] d = "stopped" ->
         <<"s", "t", "a", "t", "e", ":", " ", "s", "t", "o", "p", "\n",
           "0", ":", "a", "\n">>

\* What parse_state returns for each version of the state file.
Parsed == [d \in Dumps |-> parse_state(Reader(DumpText(d), 0))]

\* The currently playing track a version of the state file records.
TrackOf(d) == Parsed[d]

VARIABLES
  pc,            \* where run() is
  error,         \* the error run() returned, "none" until it does
  config,        \* run(): config
  state_file,    \* run(): state_file
  previous,      \* run(): previous
  current,       \* run(): current
  i,             \* run(): i
  file,          \* the version of the state file at its path, or Absent
  inotify,       \* whether the inotify instance was created
  watch,         \* whether the inotify instance holds a live watch
  queue,         \* the events queued in the inotify instance
  observed,      \* history: the tracks parsed in the first MaxLog cycles
  notifications, \* history: the summaries the Notifier got in those cycles
  sent,          \* history: the summary the Notifier got in this cycle
  rearmed,       \* history: a watch was added since the last event read
  lastTrack,     \* history: the track of the latest version of the state file
  unnotified,    \* history: tracks changed to and not notified since
  input,         \* the reader handed to a parser
  result         \* what the parser returned

runVars == <<pc, error, config, state_file, previous, current, i>>

worldVars == <<file, inotify, watch, queue>>

historyVars == <<observed, notifications, sent, rearmed, lastTrack, unnotified>>

parserVars == <<input, result>>

vars == <<runVars, worldVars, historyVars, parserVars>>

\* The error e is reported, and run() carries on where it is.
Fail_CarriesOn(e) ==
  /\ pc' = pc
  /\ error' = e

\* run() returns the error e.
Fail(e) ==
  /\ pc' = "failed"
  /\ error' = e

\* The track a version of the state file records, as an option.
Recorded(f) ==
  IF f # Absent /\ TrackOf(f).ok THEN Some(TrackOf(f).val) ELSE None

Init ==
  /\ pc = "args"
  /\ error = "none"
  /\ config = <<>>
  /\ state_file = <<>>
  /\ previous = None
  /\ current = None
  /\ i = 0
  /\ file \in Dumps \cup {Absent}
  /\ inotify = FALSE
  /\ watch = FALSE
  /\ queue = 0
  /\ observed = <<>>
  /\ notifications = <<>>
  /\ sent = None
  /\ rearmed = FALSE
  /\ lastTrack = Recorded(file)
  /\ unnotified = {}
  /\ input = Reader(<<>>, 0)
  /\ result = Err("not run")

(***************************************************************************)
(* run(): start-up.                                                        *)
(***************************************************************************)
\* Args::try_parse_from: --help and --version print and return Ok(()).
ParseArgs ==
  /\ pc = "args"
  /\ \E outcome \in {"parsed", "help", "version", "error"} :
       CASE outcome = "parsed" -> pc' = "configure" /\ UNCHANGED error
         [] outcome \in {"help", "version"} -> pc' = "returned" /\ UNCHANGED error
         [] outcome = "error" -> Fail("invalid arguments")
  /\ UNCHANGED <<config, state_file, previous, current, i>>
  /\ UNCHANGED <<worldVars, historyVars, parserVars>>

\* A lookup that falls back on the empty path when the key is missing.
get_state_file_or_default(values) ==
  IF StateFileKey \in DOMAIN values THEN Ok(values[StateFileKey]) ELSE Ok(<<>>)

\* config.get("state_file").context(...)
get_state_file(values) ==
  IF StateFileKey \in DOMAIN values THEN Ok(values[StateFileKey])
  ELSE Err("MPD configuration does not specify state_file")

\* What find_config returns, over the directories known and the answers of
\* try_exists.
FindConfigResults ==
  {find_config(config_dir, home_dir, probe) :
     config_dir \in BOOLEAN, home_dir \in BOOLEAN, probe \in [1..4 -> Probes]}

\* find_config, parse_config_file and config.get("state_file").
Configure ==
  /\ pc = "configure"
  /\ \E config_path \in FindConfigResults, opens \in BOOLEAN,
        text \in ConfigTexts :
       LET parsed == ParsedConfig[text]
       IN IF ~config_path.ok
            THEN Fail(config_path.err) /\ UNCHANGED <<config, state_file>>
          ELSE IF ~opens
            THEN /\ Fail("failed to parse MPD config file")
                 /\ UNCHANGED <<config, state_file>>
          ELSE IF ~get_state_file(parsed.val).ok
            THEN /\ Fail(get_state_file(parsed.val).err)
                 /\ config' = parsed.val
                 /\ UNCHANGED state_file
          ELSE /\ pc' = "inotify_init"
               /\ config' = parsed.val
               /\ state_file' = get_state_file(parsed.val).val
               /\ UNCHANGED error
  /\ UNCHANGED <<previous, current, i>>
  /\ UNCHANGED <<worldVars, historyVars, parserVars>>

\* Inotify::init, and previous = None.
InotifyInit ==
  /\ pc = "inotify_init"
  /\ \E ok \in BOOLEAN :
       IF ok THEN pc' = "add_watch" /\ inotify' = TRUE /\ UNCHANGED error
       ELSE Fail("failed to create file watcher") /\ UNCHANGED inotify
  /\ previous' = None
  /\ UNCHANGED <<config, state_file, current, i>>
  /\ UNCHANGED <<file, watch, queue, historyVars, parserVars>>

(***************************************************************************)
(* run(): the loop.                                                        *)
(***************************************************************************)
\* inotify.watches().add(state_file, WatchMask::CREATE). The watch is put on
\* the file now at the path, so the path has to exist.
AddWatch ==
  /\ pc = "add_watch"
  /\ \/ /\ file # Absent
        /\ pc' = "read_events"
        /\ watch' = TRUE
        /\ rearmed' = TRUE
        /\ UNCHANGED error
     \/ /\ Fail("failed to add file watch")
        /\ UNCHANGED <<watch, rearmed>>
  /\ UNCHANGED <<config, state_file, previous, current, i>>
  /\ UNCHANGED <<file, inotify, queue>>
  /\ UNCHANGED <<observed, notifications, sent, lastTrack, unnotified>>
  /\ UNCHANGED parserVars

\* Waiting again on the watch that is there.
AfterEmptyRead_WaitsAgain == "read_events"

\* Where the loop goes when events.next() is None: to its top.
AfterEmptyRead == "add_watch"

\* A read that returns the queued records one at a time.
ReadEvents_OneRecord ==
  /\ pc = "read_events"
  /\ \/ /\ queue > 0
        /\ pc' = "exists"
        /\ queue' = queue - 1
        /\ UNCHANGED error
     \/ /\ queue = 0
        /\ pc' = AfterEmptyRead
        /\ UNCHANGED <<queue, error>>
     \/ /\ Fail("failed to wait for inotify event")
        /\ UNCHANGED queue
  /\ i' = 0
  /\ rearmed' = FALSE
  /\ sent' = None
  /\ UNCHANGED <<config, state_file, previous, current>>
  /\ UNCHANGED <<file, inotify, watch>>
  /\ UNCHANGED <<observed, notifications, lastTrack, unnotified>>
  /\ UNCHANGED parserVars

\* inotify.read_events_blocking(&mut buffer) and events.next().is_some():
\* the read returns the queued events once there are some, and i = 0.
ReadEvents ==
  /\ pc = "read_events"
  /\ \/ /\ queue > 0
        /\ pc' = "exists"
        /\ queue' = 0
        /\ UNCHANGED error
     \/ /\ queue = 0
        /\ pc' = AfterEmptyRead
        /\ UNCHANGED <<queue, error>>
     \/ /\ Fail("failed to wait for inotify event")
        /\ UNCHANGED queue
  /\ i' = 0
  /\ rearmed' = FALSE
  /\ sent' = None
  /\ UNCHANGED <<config, state_file, previous, current>>
  /\ UNCHANGED <<file, inotify, watch>>
  /\ UNCHANGED <<observed, notifications, lastTrack, unnotified>>
  /\ UNCHANGED parserVars

\* A cap that is tested with <= instead of <.
WithinAttempts_OffByOne(n) == n <= MaxAttempts

\* ensure!(i < 500, ...)
WithinAttempts(n) == n < MaxAttempts

\* A wait that gives up at the cap without an error, and goes on to the parse.
PathExists_GivesUpQuietly ==
  /\ pc = "exists"
  /\ IF file # Absent \/ ~WithinAttempts(i + 1)
       THEN pc' = "parse_state_file" /\ i' = 0 /\ UNCHANGED error
       ELSE pc' = "exists" /\ i' = i + 1 /\ UNCHANGED error
  /\ UNCHANGED <<config, state_file, previous, current>>
  /\ UNCHANGED <<worldVars, historyVars, parserVars>>

\* while !path.exists() { i += 1; ensure!(i < 500, ...); sleep(1 ms) }: one
\* test of the loop condition and, when the path is missing, one pass through
\* the body. i is not read once the loop is left, and is forgotten.
PathExists ==
  /\ pc = "exists"
  /\ IF file # Absent
       THEN pc' = "parse_state_file" /\ i' = 0 /\ UNCHANGED error
     ELSE IF WithinAttempts(i + 1)
       THEN pc' = "exists" /\ i' = i + 1 /\ UNCHANGED error
     ELSE Fail("failed to find MPD state file") /\ i' = i + 1
  /\ UNCHANGED <<config, state_file, previous, current>>
  /\ UNCHANGED <<worldVars, historyVars, parserVars>>

\* mpd::parse_state_file_current(path): File::open, then parse_state.
ParseStateFile ==
  /\ pc = "parse_state_file"
  /\ IF file = Absent
       THEN Fail("failed to parse MPD state file: open") /\ UNCHANGED current
     ELSE LET parsed == Parsed[file]
          IN IF parsed.ok
               THEN /\ pc' = "compare"
                    /\ current' = Some(parsed.val)
                    /\ UNCHANGED error
               ELSE /\ Fail("failed to parse MPD state file")
                    /\ UNCHANGED current
  /\ UNCHANGED <<config, state_file, previous, i>>
  /\ UNCHANGED <<worldVars, historyVars, parserVars>>

\* A notification for every track parsed, changed or not.
ShouldNotify_Always(cur, prev) == cur.some

\* if current != previous { if let Some(current) = &current { ... } }
ShouldNotify(cur, prev) == cur # prev /\ cur.some

\* The track seen before as the summary.
Summary_Previous(cur, prev) == prev.val

\* send_notification(current): the summary handed to the Notifier.
Summary(cur, prev) == cur.val

\* previous left as it is.
Stored_Unchanged(cur, prev) == prev

\* previous = current
Stored(cur, prev) == cur

\* run() returning Ok(()) at the end of a cycle.
AfterCompare_Returns == "returned"

\* Where the loop goes after previous = current: to its top.
AfterCompare == "add_watch"

\* if current != previous { if let Some(current) = &current {
\* send_notification(current)? } } previous = current; and current goes out
\* of scope.
Compare ==
  /\ pc = "compare"
  /\ LET notify == ShouldNotify(current, previous)
         summary == Summary(current, previous)
         logged == Len(observed) < MaxLog
     IN /\ observed' = IF logged THEN Append(observed, current) ELSE observed
        /\ notifications' = IF logged /\ notify
                              THEN Append(notifications, summary)
                              ELSE notifications
        /\ sent' = IF notify THEN Some(summary) ELSE None
        /\ unnotified' = IF notify THEN unnotified \ {summary}
                         ELSE unnotified
        /\ \/ /\ pc' = AfterCompare
              /\ previous' = Stored(current, previous)
              /\ UNCHANGED error
           \/ /\ notify
              /\ Fail("failed to send DBus notification")
              /\ UNCHANGED previous
  /\ current' = None
  /\ UNCHANGED <<config, state_file, i>>
  /\ UNCHANGED <<worldVars, rearmed, lastTrack, parserVars>>

(***************************************************************************)
(* The MPD daemon, which rewrites the state file. A watch sits on the file *)
(* it was added for: when that file goes, the inotify instance queues an   *)
(* event and drops the watch.                                              *)
(***************************************************************************)
\* Where run() is once it has entered its loop.
LoopStates ==
  {"add_watch", "read_events", "exists", "parse_state_file", "compare"}

\* Where run() is in the phases Armed, Materializing and Comparing.
WatchPhases == {"read_events", "exists", "parse_state_file", "compare"}

\* The history of a new version d of the state file: a change of the track
\* it records, made in one of these phases, is owed a notification.
Written(d) ==
  /\ lastTrack' = Recorded(d)
  /\ unnotified' = IF /\ Recorded(d).some
                      /\ Recorded(d) # lastTrack
                      /\ pc \in WatchPhases
                     THEN unnotified \cup {Recorded(d).val}
                     ELSE unnotified

\* The file at the path goes: a watch on it queues one or more event records
\* and is dropped.
Unlinked ==
  /\ watch' = FALSE
  /\ IF watch
       THEN \E records \in 1..MaxRecords : queue' = queue + records
       ELSE queue' = queue

\* The daemon removes the state file.
DaemonRemove ==
  /\ file # Absent
  /\ file' = Absent
  /\ Unlinked
  /\ UNCHANGED <<runVars, inotify, parserVars>>
  /\ UNCHANGED <<observed, notifications, sent, rearmed, lastTrack, unnotified>>

\* The daemon creates the state file anew.
DaemonCreate ==
  /\ file = Absent
  /\ \E d \in Dumps :
       /\ file' = d
       /\ Written(d)
  /\ UNCHANGED <<runVars, inotify, watch, queue, parserVars>>
  /\ UNCHANGED <<observed, notifications, sent, rearmed>>

\* The daemon puts a new file in the place of the state file in one step.
DaemonReplace ==
  /\ file # Absent
  /\ \E d \in Dumps :
       /\ file' = d
       /\ Written(d)
  /\ Unlinked
  /\ UNCHANGED <<runVars, inotify, parserVars>>
  /\ UNCHANGED <<observed, notifications, sent, rearmed>>

Daemon == DaemonRemove \/ DaemonCreate \/ DaemonReplace

Run ==
  \/ ParseArgs
  \/ Configure
  \/ InotifyInit
  \/ AddWatch
  \/ ReadEvents
  \/ PathExists
  \/ ParseStateFile
  \/ Compare

Next == Run \/ Daemon

Spec == Init /\ [][Next]_vars

\* run() is a running process: it takes its next step whenever it has one.
FairSpec == Init /\ [][Next]_vars /\ WF_vars(Run)

(***************************************************************************)
(* What run() owes.                                                        *)
(***************************************************************************)
\* The tracks the versions of the state file record.
TrackNames == {Parsed[d].val : d \in {e \in Dumps : Parsed[e].ok}}

\* The observations of obs that differ from the one before them, prev being
\* the one before the first.
RECURSIVE Changes(_, _)
Changes(prev, obs) ==
  IF obs = <<>> THEN <<>>
  ELSE (IF Head(obs) # prev THEN <<Head(obs).val>> ELSE <<>>)
         \o Changes(Head(obs), Tail(obs))

\* C1: the Notifier is invoked in a cycle exactly when the track parsed in
\* that cycle differs from the one parsed in the cycle before (from "none
\* observed" in the first cycle), once, with that track as the summary: the
\* summaries sent are the observed tracks without their repetitions.
C1_ChangeDetection == notifications = Changes(None, observed)

\* Four cycles that parsed a track, the same track, another track and that
\* track again: two notifications, for the first and the third.
C1_Witness ==
  /\ Len(observed) >= 4
  /\ observed[1] = observed[2]
  /\ observed[2] # observed[3]
  /\ observed[3] = observed[4]
  /\ Len(notifications) >= 2
  /\ SubSeq(notifications, 1, 2) = <<observed[1].val, observed[3].val>>

\* C2: whenever the daemon changes the track the state file records, the
\* loop eventually sends a notification for the new track, unless run() has
\* returned an error.
C2_EveryChangeNotified ==
  \A t \in TrackNames :
    (t \in unnotified) ~> (t \notin unnotified \/ pc = "failed")

\* C3: whenever run() waits for an event, it has added the watch since the
\* wait before returned.
C3_RearmedBeforeWait == pc = "read_events" => rearmed /\ inotify

\* A wait of a later cycle, on a watch added in that cycle.
C3_Witness ==
  /\ pc = "read_events"
  /\ rearmed
  /\ watch
  /\ observed # <<>>

\* C4: the wait for the state file tests the path at most MaxAttempts times:
\* every test that finds no file counts, the wait goes on only below the cap,
\* and it fails exactly at the test that brings the count to the cap.
C4_MaterializationBound ==
  /\ [](pc = "exists" => i < MaxAttempts)
  /\ [](error = "failed to find MPD state file" => i = MaxAttempts)
  /\ [][(pc = "exists" /\ pc' = "failed")
          => (file = Absent /\ i = MaxAttempts - 1 /\ i' = MaxAttempts)]_vars
  /\ [][(pc = "exists" /\ pc' = "exists" /\ i' # i)
          => (file = Absent /\ i' = i + 1)]_vars

\* The wait has given up, at the cap.
C4_Witness ==
  /\ pc = "failed"
  /\ error = "failed to find MPD state file"
  /\ i = MaxAttempts

\* The history of run(), without that of the daemon.
runHistory == <<observed, notifications, sent, rearmed>>

\* C5: an error is returned by run() at once, and run() does nothing after
\* it: no watch is added, nothing is read, compared or sent. The one step
\* that run() repeats is the test for the path of the state file.
C5_FailuresAreFatal ==
  /\ [](error # "none" <=> pc = "failed")
  /\ [][pc = "failed"
          => (UNCHANGED <<runVars, runHistory, inotify>> /\ (watch' => watch))]_vars
  /\ [][(pc' = pc /\ <<runVars, runHistory>>' # <<runVars, runHistory>>)
          => pc = "exists"]_vars

\* run() has returned the error of a state file it could not parse.
C5_Witness ==
  /\ pc = "failed"
  /\ error = "failed to parse MPD state file"
  /\ inotify

ConfigErrors ==
  {"failed to find MPD configuration file",
   "MPD configuration does not specify state_file"}

\* C6: with no configuration file, or with no state_file in it, run()
\* returns an error before it creates the file watcher, adds a watch or
\* sends a notification: the watcher exists only for a configuration that
\* names the state file.
C6_ConfigErrorsAtStartup ==
  /\ error \in ConfigErrors
       => (pc = "failed" /\ ~inotify /\ ~watch /\ ~rearmed
           /\ notifications = <<>> /\ sent = None)
  /\ inotify => (StateFileKey \in DOMAIN config
                 /\ state_file = config[StateFileKey])

\* run() has returned for a configuration without state_file.
C6_Witness ==
  /\ pc = "failed"
  /\ error = "MPD configuration does not specify state_file"
  /\ StateFileKey \notin DOMAIN config

\* C7: a comparison that completes leaves in previous the track parsed in
\* its cycle, and nothing else changes previous.
C7_PreviousIsCurrent ==
  /\ [][(pc = "compare" /\ pc' # "compare" /\ pc' # "failed")
          => previous' = current]_vars
  /\ [][previous' # previous => (pc = "compare" /\ pc' # "failed")]_vars

\* A comparison has completed for a track equal to the one before: previous
\* holds it, and nothing was sent.
C7_Witness ==
  /\ pc = "add_watch"
  /\ Len(observed) >= 2
  /\ observed[1] = observed[2]
  /\ previous = observed[2]
  /\ sent = None

ParseErrors ==
  {"failed to parse MPD state file", "failed to parse MPD state file: open"}

\* C8: the Notifier is invoked only in a comparison, with the track parsed
\* from the state file in that cycle as the summary; a comparison always has
\* such a track, and a cycle whose parse fails sends nothing.
C8_NotifiesOnlyParsedTrack ==
  /\ [][(sent' # sent /\ sent'.some)
          => (pc = "compare" /\ current.some /\ sent' = current)]_vars
  /\ [][(current' # current /\ current'.some)
          => (/\ pc = "parse_state_file"
              /\ file # Absent
              /\ Parsed[file].ok
              /\ current' = Some(Parsed[file].val))]_vars
  /\ [](pc = "compare" => current.some)
  /\ [](error \in ParseErrors => sent = None)

\* A notification was sent in this cycle.
C8_Witness ==
  /\ pc = "add_watch"
  /\ sent.some
  /\ sent = previous

\* C9: once in its loop, run() leaves it only by returning an error; a
\* comparison that does not fail goes back to adding the watch, and from
\* there to the wait for an event.
C9_NoTerminalState ==
  /\ [][(pc \in LoopStates) => (pc' \in (LoopStates \cup {"failed"}))]_vars
  /\ [][(pc = "compare" /\ pc' \notin {"compare", "failed"})
          => pc' = "add_watch"]_vars
  /\ [][(pc = "add_watch" /\ pc' \notin {"add_watch", "failed"})
          => (pc' = "read_events" /\ watch')]_vars
  /\ [](pc = "returned" => ~inotify)

\* The loop is back at the wait after cycles that sent and did not send.
C9_Witness ==
  /\ pc = "read_events"
  /\ Len(observed) >= 2
  /\ Len(notifications) = 1

\* C18: run() goes on to open and parse the state file exactly when a test
\* finds the path, which is one of the first MaxAttempts tests of the cycle;
\* a test that finds the path is followed by no sleep; a sleep follows each
\* test that finds no file below the cap, so there are at most
\* MaxAttempts - 1 sleeps; and the file is opened only after such a test.
C18_MaterializationSuccess ==
  /\ [][(pc' = "parse_state_file" /\ pc # "parse_state_file")
          => (pc = "exists" /\ file # Absent /\ i < MaxAttempts)]_vars
  /\ [][(pc = "exists" /\ pc' # "exists")
          => (pc' = "parse_state_file" <=> file # Absent)]_vars
  /\ [][(pc = "exists" /\ file # Absent) => i' = i \/ pc' # "exists"]_vars
  /\ [][(pc = "exists" /\ pc' = "exists" /\ i' # i)
          => (file = Absent /\ i' = i + 1 /\ i' <= MaxAttempts - 1)]_vars
  /\ [][(current' # current /\ current'.some) => pc = "parse_state_file"]_vars

\* The path is there for the last test the cap allows, after
\* MaxAttempts - 1 sleeps.
C18_Witness ==
  /\ pc = "exists"
  /\ i = MaxAttempts - 1
  /\ file # Absent

\* C19: a return of the read with records takes all of them, however many,
\* and leads to one test-and-parse of the state file, one comparison and at
\* most one notification before the next read; a return without a record
\* leaves the file unread, sends nothing, leaves previous as it is and goes
\* back to adding the watch.
C19_OneCyclePerRead ==
  /\ [][(pc' = "exists" /\ pc # "exists")
          => (pc = "read_events" /\ queue > 0 /\ queue' = 0)]_vars
  /\ [][(pc' = "parse_state_file" /\ pc # "parse_state_file")
          => pc = "exists"]_vars
  /\ [][(pc' = "compare" /\ pc # "compare") => pc = "parse_state_file"]_vars
  /\ [][(pc = "compare" /\ pc' # "compare")
          => pc' \in {"add_watch", "failed"}]_vars
  /\ [][(sent' # sent /\ sent'.some) => (pc = "compare" /\ ~sent.some)]_vars
  /\ [][Len(notifications') <= Len(notifications) + 1]_vars
  /\ [][(pc = "read_events" /\ queue = 0 /\ pc' \notin {"read_events", "failed"})
          => (/\ pc' = "add_watch"
              /\ sent' = None
              /\ UNCHANGED <<previous, current, observed, notifications>>)]_vars

\* A later wait is about to return a batch of more than one record.
C19_Witness ==
  /\ pc = "read_events"
  /\ queue > 1
  /\ observed # <<>>
  /\ previous.some

\* C20: the open of the state file, which follows a test that found the
\* path, never fails for a missing file.
C20_OpenFindsFile ==
  ~(pc = "failed" /\ error = "failed to parse MPD state file: open")

(***************************************************************************)
(* The parsers on their own: a reader is drawn, and a parser is applied to *)
(* it.                                                                     *)
(***************************************************************************)
\* The lines the state dumps handed to parse_state are made of.
StateLines ==
  { <<"c", "u", "r", "r", "e", "n", "t", ":", " ", "6", "\n">>,
    <<"c", "u", "r", "r", "e", "n", "t", ":", "+", "0", "6", " ", "\n">>,
    <<"c", "u", "r", "r", "e", "n", "t", ":", " ", "x", "\n">>,
    <<"c", "u", "r", "r", "e", "n", "t", ":", " ", "1", "6", "\n">>,
    <<"c", "u", "r", "r", "e", "n", "t", ":", " ", "-", "6", "\n">>,
    <<"c", "u", "r", "r", "e", "n", "t", ":", " ", "\n">>,
    <<"6", ":", "p", " ", "\n">>,
    <<"6", ":", "q">>,
    <<"1", "6", ":", "r", "\n">>,
    <<" ", "6", ":", "s", "\n">>,
    <<"s", "t", "a", "t", "e", ":", " ", "p", "l", "a", "y", "\n">> }

\* The pieces of a sequence of pieces, one after the other.
RECURSIVE Concat(_)
Concat(pieces) ==
  IF pieces = <<>> THEN <<>> ELSE Head(pieces) \o Concat(Tail(pieces))

\* The texts of at most MaxLines pieces of the set.
Texts(pieces) ==
  {Concat(ps) : ps \in UNION {[1..n -> pieces] : n \in 0..MaxLines}}

ParserInit ==
  /\ pc = "parser"
  /\ error = "none"
  /\ config = <<>>
  /\ state_file = <<>>
  /\ previous = None
  /\ current = None
  /\ i = 0
  /\ file = Absent
  /\ inotify = FALSE
  /\ watch = FALSE
  /\ queue = 0
  /\ observed = <<>>
  /\ notifications = <<>>
  /\ sent = None
  /\ rearmed = FALSE
  /\ lastTrack = None
  /\ unnotified = {}
  /\ input \in {Reader(buf, failAt) : buf \in Texts(StateLines),
                                      failAt \in 0..MaxLines}
  /\ result = Err("not run")

\* parse_state(reader)
ApplyParseState ==
  /\ pc = "parser"
  /\ pc' = "parse_state"
  /\ result' = parse_state(input)
  /\ UNCHANGED <<error, config, state_file, previous, current, i>>
  /\ UNCHANGED <<worldVars, historyVars, input>>

ParserNext == ApplyParseState

ParserSpec == ParserInit /\ [][ParserNext]_vars

(***************************************************************************)
(* The lines of a text, for stating what the parsers owe.                  *)
(***************************************************************************)
RECURSIVE LinesOf(_)
LinesOf(buf) ==
  IF buf = <<>> THEN <<>>
  ELSE LET nl == {n \in 1..Len(buf) : buf[n] = "\n"}
           end == IF nl = {} THEN Len(buf)
                  ELSE CHOOSE n \in nl : \A m \in nl : n <= m
       IN <<SubSeq(buf, 1, end)>> \o LinesOf(SubSeq(buf, end + 1, Len(buf)))

Least(S) == CHOOSE n \in S : \A m \in S : n <= m

\* The lines of ls that begin with "current:".
IndexLines(ls) == {k \in 1..Len(ls) : starts_with(ls[k], CurrentMarker)}

\* The index a line beginning with "current:" gives.
IndexOf(line) == usize_from_str(trim(SubSeq(line, Len(CurrentMarker) + 1, Len(line))))

\* The lines after line k that begin with the index of line k and a colon.
EntryLines(ls, k) ==
  LET prefix == IndexOf(ls[k]).val \o <<":">>
  IN {j \in (k + 1)..Len(ls) :
        Len(ls[j]) >= Len(prefix) /\ SubSeq(ls[j], 1, Len(prefix)) = prefix}

\* The trimmed remainder of the first entry line after line k.
EntryOf(ls, k) ==
  LET j == Least(EntryLines(ls, k))
  IN trim(SubSeq(ls[j], Len(IndexOf(ls[k]).val) + 2, Len(ls[j])))

\* Line k of ls is an index line that has an entry line after it.
HasEntry(ls, k) ==
  /\ k \in IndexLines(ls)
  /\ IndexOf(ls[k]).ok
  /\ EntryLines(ls, k) # {}

\* parse_state was applied to a reader none of whose reads fail.
StateParsed == pc = "parse_state" /\ input.failAt = 0

\* C10, as stated: for a dump with some line beginning with "current:" whose
\* trimmed remainder parses to N and a later line beginning with "N:",
\* parse_state returns the trimmed remainder of the first such later line.
C10_AnyIndexLine ==
  StateParsed =>
    LET ls == LinesOf(input.buf)
    IN \A k \in 1..Len(ls) : HasEntry(ls, k) => result = Ok(EntryOf(ls, k))

\* C10, amended: when the FIRST line beginning with "current:" has a trimmed
\* remainder that parses to N and a later line begins with "N:", parse_state
\* returns the trimmed remainder of the first such later line; the lines
\* before the index line and after the match do not matter.
C10_FirstIndexLine ==
  StateParsed =>
    LET ls == LinesOf(input.buf)
    IN \A k \in 1..Len(ls) :
         (HasEntry(ls, k) /\ k = Least(IndexLines(ls)))
           => result = Ok(EntryOf(ls, k))

\* A dump whose index line 6 is followed by "16:r" and only then by "6:p":
\* the result is p.
C10_Witness ==
  /\ StateParsed
  /\ LET ls == LinesOf(input.buf)
     IN /\ HasEntry(ls, 1)
        /\ Least(EntryLines(ls, 1)) = 3
        /\ starts_with(ls[2], <<"1", "6", ":">>)
  /\ result = Ok(<<"p">>)

\* The error of a dump that has no entry for the track playing.
NotFound == Err("failed to find currently playing song")

\* C11: parse_state returns the error "failed to find currently playing song"
\* for a dump that has no line beginning with "current:", and for a dump
\* whose index line (the first line beginning with "current:") gives the
\* index N while no later line begins with "N:".
C11_NotFound ==
  StateParsed =>
    LET ls == LinesOf(input.buf)
    IN /\ IndexLines(ls) = {} => result = NotFound
       /\ \A k \in 1..Len(ls) :
            (/\ k \in IndexLines(ls)
             /\ k = Least(IndexLines(ls))
             /\ IndexOf(ls[k]).ok
             /\ EntryLines(ls, k) = {})
              => result = NotFound

\* A dump whose index line 6 is followed only by the line "16:r", and the
\* error for it.
C11_Witness ==
  /\ StateParsed
  /\ LET ls == LinesOf(input.buf)
     IN /\ Len(ls) = 2
        /\ IndexLines(ls) = {1}
        /\ IndexOf(ls[1]).val = <<"6">>
        /\ starts_with(ls[2], <<"1", "6", ":">>)
  /\ result = NotFound

\* Text that denotes a non-negative integer: decimal digits, which a "+" may
\* precede.
IsNonNegativeInteger(s) ==
  LET ds == IF s # <<>> /\ Head(s) = "+" THEN Tail(s) ELSE s
  IN /\ ds # <<>>
     /\ \A n \in 1..Len(ds) :
          ds[n] \in {"0", "1", "2", "3", "4", "5", "6", "7", "8", "9"}

\* The text after "current:" on line k, trimmed.
IndexText(ls, k) == trim(SubSeq(ls[k], Len(CurrentMarker) + 1, Len(ls[k])))

\* C12: when the trimmed remainder of the first line beginning with
\* "current:" is not a non-negative integer, parse_state returns the error
\* "failed to parse current song index", whatever lines follow.
C12_BadIndexFails ==
  StateParsed =>
    LET ls == LinesOf(input.buf)
    IN \A k \in 1..Len(ls) :
         (/\ k \in IndexLines(ls)
          /\ k = Least(IndexLines(ls))
          /\ ~IsNonNegativeInteger(IndexText(ls, k)))
           => result = Err("failed to parse current song index")

\* A dump whose first index line reads "current: x", followed by the lines
\* "current: 6" and "6:p" that would match, and the error for it.
C12_Witness ==
  /\ StateParsed
  /\ LET ls == LinesOf(input.buf)
     IN /\ Len(ls) = 3
        /\ IndexText(ls, 1) = <<"x">>
        /\ HasEntry(ls, 2)
  /\ result = Err("failed to parse current song index")

(***************************************************************************)
(* parse_config on its own.                                                *)
(***************************************************************************)
\* The lines the configuration files handed to parse_config are made of.
ConfigLines ==
  { <<"k", " ", "v", "\n">>,
    <<"k", " ", "\"", "v", "\"", "\n">>,
    <<"k", " ", "\"", "v", "\n">>,
    <<"k", " ", "\"", "\"", "v", "\"", "\"", "\n">>,
    <<"k", " ", "\t", " ", "\"", "w", "\"", " ", "\n">>,
    <<"K", " ", "w", "\n">>,
    <<" ", "k", " ", "v", " ", "#", " ", "c", "\n">>,
    <<"k", " ", "\"", "a", "#", "b", "\"", "\n">>,
    <<"k", " ", "#", " ", "c", "\n">>,
    <<"#", " ", "c", "\n">>,
    <<"k", "\n">>,
    <<" ", "\n">> }

ConfigParserInit ==
  /\ pc = "config_parser"
  /\ error = "none"
  /\ config = <<>>
  /\ state_file = <<>>
  /\ previous = None
  /\ current = None
  /\ i = 0
  /\ file = Absent
  /\ inotify = FALSE
  /\ watch = FALSE
  /\ queue = 0
  /\ observed = <<>>
  /\ notifications = <<>>
  /\ sent = None
  /\ rearmed = FALSE
  /\ lastTrack = None
  /\ unnotified = {}
  /\ input \in {Reader(buf, failAt) : buf \in Texts(ConfigLines),
                                      failAt \in 0..(MaxLines + 1)}
  /\ result = Err("not run")

\* parse_config(reader)
ApplyParseConfig ==
  /\ pc = "config_parser"
  /\ pc' = "parse_config"
  /\ result' = parse_config(input)
  /\ UNCHANGED <<error, config, state_file, previous, current, i>>
  /\ UNCHANGED <<worldVars, historyVars, input>>

ConfigParserNext == ApplyParseConfig

ConfigSpec == ConfigParserInit /\ [][ConfigParserNext]_vars

\* parse_config was applied.
ConfigParsed == pc = "parse_config"

\* One of the read_line calls parse_config makes fails: it makes one call for
\* every line and one that finds the end of the input.
ReadFails == input.failAt \in 1..(Len(LinesOf(input.buf)) + 1)

\* C13: parse_config returns an error when one of its reads fails, and a
\* mapping when every read succeeds.
C13_ReadFailurePropagates ==
  ConfigParsed => (result.ok <=> ~ReadFails)

(***************************************************************************)
(* A directive line as the format describes it: the comment goes first,    *)
(* then the surrounding whitespace, and the first whitespace splits the    *)
(* rest into a key and a remainder.                                        *)
(***************************************************************************)
\* The text of a line before its first '#'.
StripComment(line) ==
  LET at == {n \in 1..Len(line) : line[n] = "#"}
  IN IF at = {} THEN line ELSE SubSeq(line, 1, Least(at) - 1)

\* The line without its comment and the whitespace around the rest.
Directive(line) == trim(StripComment(line))

\* The directive has a key and, after whitespace, a remainder.
HasRemainder(line) ==
  \E n \in 1..Len(Directive(line)) : Directive(line)[n] \in WhiteSpace

\* The key of a directive: the text before its first whitespace.
KeyOf(line) ==
  LET d == Directive(line)
  IN SubSeq(d, 1, Least({n \in 1..Len(d) : d[n] \in WhiteSpace}) - 1)

\* The remainder of a directive: the text after its key, trimmed.
RemainderOf(line) ==
  LET d == Directive(line)
  IN trim(SubSeq(d, Len(KeyOf(line)) + 1, Len(d)))

\* v without one leading double quote, if it has one, and without one
\* trailing double quote, if what is left has one.
Unquote(v) ==
  LET lead == IF v # <<>> /\ Head(v) = "\"" THEN 1 ELSE 0
      rest == SubSeq(v, lead + 1, Len(v))
      trail == IF rest # <<>> /\ rest[Len(rest)] = "\"" THEN 1 ELSE 0
  IN SubSeq(rest, 1, Len(rest) - trail)

\* The value a directive gives its key.
ValueOf(line) == Unquote(RemainderOf(line))

\* parse_config was applied to a reader none of whose reads fail.
ConfigRead == ConfigParsed /\ ~ReadFails

\* C14: a line without a remainder after its comment is stripped and it is
\* trimmed (a blank line, a comment line, a single token, a key followed
\* only by whitespace and a comment) leaves the mapping as it is: the
\* mapping is that of the input without these lines.
C14_NoEntryWithoutRemainder ==
  ConfigRead =>
    result = parse_config(Reader(Concat(SelectSeq(LinesOf(input.buf), HasRemainder)), 0))

\* C15: for a single line without a comment that holds a key, whitespace and
\* a value, the mapping holds for the key the value without the whitespace
\* around it, without one leading and without one trailing double quote,
\* and holds nothing else.
C15_QuoteStripping ==
  ConfigRead =>
    LET ls == LinesOf(input.buf)
    IN (Len(ls) = 1 /\ ~contains(ls[1], <<"#">>) /\ HasRemainder(ls[1]))
         => (/\ result.ok
             /\ DOMAIN result.val = {KeyOf(ls[1])}
             /\ result.val[KeyOf(ls[1])] = ValueOf(ls[1]))

\* The line k ""v"", which keeps one double quote on either side of v.
C15_Witness ==
  /\ ConfigRead
  /\ input.buf = <<"k", " ", "\"", "\"", "v", "\"", "\"", "\n">>
  /\ result.val[<<"k">>] = <<"\"", "v", "\"">>

\* C16: no value of the mapping holds a '#', and for a single line that has
\* a '#' after a key and the start of a value, the value is made of the text
\* before the first '#' only, between double quotes or not.
C16_CommentStripping ==
  ConfigRead =>
    LET ls == LinesOf(input.buf)
    IN /\ result.ok
       /\ \A key \in DOMAIN result.val : ~contains(result.val[key], <<"#">>)
       /\ (Len(ls) = 1 /\ contains(ls[1], <<"#">>) /\ HasRemainder(ls[1]))
            => (/\ DOMAIN result.val = {KeyOf(ls[1])}
                /\ result.val[KeyOf(ls[1])] = ValueOf(ls[1]))

\* The line k "a#b", whose value is a.
C16_Witness ==
  /\ ConfigRead
  /\ input.buf = <<"k", " ", "\"", "a", "#", "b", "\"", "\n">>
  /\ result.val[<<"k">>] = <<"a">>

\* A key that only whitespace and a comment follow.
KeyThenComment(line) ==
  /\ Directive(line) # <<>>
  /\ ~HasRemainder(line)
  /\ \E n \in 2..Len(line) :
       /\ line[n] = "#"
       /\ line[n - 1] \in WhiteSpace
       /\ ~contains(SubSeq(line, 1, n - 1), <<"#">>)

\* The lines of ls that are directives for the key.
DirectivesFor(ls, key) ==
  {k \in 1..Len(ls) : HasRemainder(ls[k]) /\ KeyOf(ls[k]) = key}

=============================================================================
